---- MODULE Spec2Model ----
(***************************************************************************)
(* Edge Detection Viewer: the CPU Canny pipeline (utils/edgeDetection.ts)  *)
(* and the WebGL renderer (utils/webglRenderer.ts).                        *)
(*                                                                         *)
(* Arrays are functions over 0..n-1, as in the source.  Two numeric        *)
(* representations are used for the Float32Array values:                   *)
(*  - a gradient magnitude Math.sqrt(gx*gx + gy*gy) is held as the integer *)
(*    gx*gx + gy*gy.  Math.sqrt followed by the rounding to Float32 is     *)
(*    strictly increasing on the integers that can occur here (at most     *)
(*    2 * 1020^2), so every comparison the code makes between two          *)
(*    magnitudes, or between a magnitude and an integer threshold t >= 0,  *)
(*    is the same comparison on the squares (against t*t);                 *)
(*  - a gradient direction Math.atan2(gy, gx) is held as the pair          *)
(*    <<gy, gx>>; the angle tests of nonMaxSuppression are decided on the  *)
(*    pair with exact integer arithmetic (tan 22.5 deg = sqrt(2) - 1).     *)
(***************************************************************************)
EXTENDS Integers, Sequences, FiniteSets, TLC

VARIABLES
  \* ---- applyCannyEdgeDetection ----
  pc,             \* position inside applyCannyEdgeDetection
  canvas,         \* the source canvas: [width, height, data]
  lowThreshold,   \* argument lowThreshold
  highThreshold,  \* argument highThreshold
  imageData,      \* ctx.getImageData(0, 0, width, height)
  blurred,        \* gaussianBlur(imageData, 2)
  gray,           \* toGrayscale(blurred)
  magnitude,      \* sobelGradient(...).magnitude   (squares, see above)
  direction,      \* sobelGradient(...).direction   (<<gy, gx>>, see above)
  suppressed,     \* nonMaxSuppression(...)         (squares)
  edges,          \* hysteresis(...)
  outputCanvas,   \* the returned canvas: [width, height, data]
  \* ---- WebGLRenderer and its WebGL context ----
  inst,           \* "none" (not constructed), "live", "failed" (constructor threw)
  programs,       \* this.programs: Map effect -> WebGLProgram, in insertion order
  textures,       \* this.textures: Map name -> WebGLTexture, in insertion order
  currentProgram, \* this.currentProgram
  glLive,         \* context: program and texture objects created and not deleted
  glDeleted,      \* context: program and texture objects deleted
  nextHandle,     \* context: number of the next object it creates
  boundTexture,   \* context: the texture bound to TEXTURE_2D
  canvasSize,     \* gl.canvas.width, gl.canvas.height
  glCalls,        \* the context calls made by the last renderer operation, in order
  consoleErrors,  \* the console.error messages of the last renderer operation
  lastOp,         \* the last renderer operation: [op, arg, result]
  glBuild,        \* what getContext, createShader, createProgram gave the last operation
  disposed,       \* dispose() has been called on the instance
  latestMain,     \* the texture the latest loadTexture under "main" created
  \* ---- one call of renderWithWebGL ----
  rw,             \* its argument and position: [pc, effect]
  \* ---- one call of hysteresis, statement by statement ----
  hyst,           \* its arguments and locals: [pc, magnitude, width, height,
                  \*   lowThreshold, highThreshold, edges, y, x]
  \* ---- one call of applySobelEdgeDetection ----
  sobel,          \* its argument and locals: [pc, canvas, imageData, gray, magnitude,
                  \*   maxMag, outputCanvas]   (magnitude and maxMag as squares)
  \* ---- the React components ----
  app,            \* state of App: [imageData, processedImage, stats, isProcessing,
                  \*   isLiveMode]
  uploader,       \* state of ImageUploader: [isWebcamActive], with lastFrame, the
                  \*   frame its timer last handed to onWebcamFrame
  viewer,         \* state of EdgeDetectionViewer: [viewMode, lowThreshold,
                  \*   highThreshold, isAutoProcessing, useWebGL]
  runs            \* the processImage calls in flight, each [src, useWebGL, stage]

cannyVars == <<pc, canvas, lowThreshold, highThreshold, imageData, blurred,
               gray, magnitude, direction, suppressed, edges, outputCanvas>>

glVars == <<inst, programs, textures, currentProgram, glLive, glDeleted, nextHandle,
            boundTexture, canvasSize, glCalls, consoleErrors, lastOp, glBuild, disposed,
            latestMain>>

rwVars == <<rw>>

hystVars == <<hyst>>

sobelVars == <<sobel>>

appVars == <<app, uploader, viewer, runs>>

vars == <<cannyVars, glVars, rwVars, hystVars, sobelVars, appVars>>

\* what the actions of one part leave alone
besidesCanny == <<glVars, rwVars, hystVars, sobelVars, appVars>>
besidesGL == <<cannyVars, rwVars, hystVars, sobelVars, appVars>>
besidesRW == <<cannyVars, hystVars, sobelVars, appVars>>
besidesHyst == <<cannyVars, glVars, rwVars, sobelVars, appVars>>
besidesSobel == <<cannyVars, glVars, rwVars, hystVars, appVars>>
besidesApp == <<cannyVars, glVars, rwVars, hystVars, sobelVars>>

----------------------------------------------------------------------------
(* Bounds of the checked input space *)

MaxW == 4          \* canvas widths 1..MaxW
MaxH == 3          \* canvas heights 1..MaxH

\* RGBA samples the source images are painted with
Black == <<0, 0, 0, 255>>
White == <<255, 255, 255, 255>>
Tint  == <<200, 40, 120, 128>>
Palette == {Black, White, Tint}

\* threshold arguments tried (the sliders of the viewer range over 0..255)
Thresholds == {0, 100, 255}

None == <<>>       \* a variable that has not been assigned yet

MaxTextures == 3   \* at most MaxTextures loadTexture calls on one renderer

\* the names textures are loaded under ("main" is the default argument)
TextureNames == {"main", "overlay"}

\* the sizes resize is called with
Sizes == {<<1, 1>>, <<4, 3>>}

----------------------------------------------------------------------------
(* Numeric helpers *)

Min(a, b) == IF a < b THEN a ELSE b
Max(a, b) == IF a > b THEN a ELSE b
Abs(a) == IF a < 0 THEN -a ELSE a

\* Storing the non-negative number num/den into a Uint8ClampedArray:
\* round to nearest, ties to even, then clamp to 0..255.
ToUint8Clamped(num, den) ==
  LET q == num \div den
      r == num % den
      n == IF 2 * r < den THEN q
           ELSE IF 2 * r > den THEN q + 1
           ELSE IF q % 2 = 0 THEN q ELSE q + 1
  IN  Min(Max(n, 0), 255)

RECURSIVE SumOver(_, _, _)
\* f[lo] + ... + f[hi]
SumOver(f, lo, hi) == IF lo > hi THEN 0 ELSE f[lo] + SumOver(f, lo + 1, hi)

----------------------------------------------------------------------------
(* gaussianBlur: box blur of radius `radius`, clamp-to-edge, alpha := 255 *)

gaussianBlur(img, radius) ==
  LET width  == img.width
      height == img.height
      data   == img.data
      count  == (2 * radius + 1) * (2 * radius + 1)
      tap(x, y, c) ==
        SumOver([ky \in -radius..radius |->
                  SumOver([kx \in -radius..radius |->
                            LET px == Min(Max(x + kx, 0), width - 1)
                                py == Min(Max(y + ky, 0), height - 1)
                            IN  data[(py * width + px) * 4 + c]],
                          -radius, radius)],
                -radius, radius)
  IN  [width  |-> width,
       height |-> height,
       data   |-> [i \in 0..(width * height * 4 - 1) |->
                    LET p == i \div 4
                        c == i % 4
                    IN  IF c = 3 THEN 255
                        ELSE ToUint8Clamped(tap(p % width, p \div width, c), count)]]

(* toGrayscale: 0.299 R + 0.587 G + 0.114 B stored into a Uint8ClampedArray *)
toGrayscale(img) ==
  [p \in 0..(img.width * img.height - 1) |->
     ToUint8Clamped(299 * img.data[4 * p] + 587 * img.data[4 * p + 1]
                      + 114 * img.data[4 * p + 2], 1000)]

----------------------------------------------------------------------------
(* sobelGradient *)

\* a kernel whose last coefficient is mistyped (the entries no longer sum to 0)
sobelX_unbalanced == [k \in 0..8 |-> <<-1, 0, 1, -2, 0, 2, -1, 0, 2>>[k + 1]]

sobelX == [k \in 0..8 |-> <<-1, 0, 1, -2, 0, 2, -1, 0, 1>>[k + 1]]
sobelY == [k \in 0..8 |-> <<-1, -2, -1, 0, 0, 0, 1, 2, 1>>[k + 1]]

Interior(idx, width, height) ==
  LET x == idx % width
      y == idx \div width
  IN  x >= 1 /\ x < width - 1 /\ y >= 1 /\ y < height - 1

\* the kernel sum at pixel idx for kernel k
Convolve3(g, width, idx, k) ==
  SumOver([ky \in -1..1 |->
            SumOver([kx \in -1..1 |->
                      g[idx + ky * width + kx] * k[(ky + 1) * 3 + (kx + 1)]],
                    -1, 1)],
          -1, 1)

sobelGradient(g, width, height) ==
  LET gxy == [idx \in 0..(width * height - 1) |->
               IF Interior(idx, width, height)
               THEN <<Convolve3(g, width, idx, sobelY), Convolve3(g, width, idx, sobelX)>>
               ELSE <<0, 0>>]
  IN  [magnitude |-> [idx \in 0..(width * height - 1) |->
                       gxy[idx][1] * gxy[idx][1] + gxy[idx][2] * gxy[idx][2]],
       direction |-> gxy]

----------------------------------------------------------------------------
(* nonMaxSuppression *)

\* angle = direction * (180 / PI) rounded to the nearest multiple of 45
\* degrees, in units of 45 degrees: -4..4 (both -4 and 4 stand for the
\* sector around +-180).  No direction of an integer gradient lies on an odd
\* multiple of 22.5 degrees, so  angle >= 22.5*k  is  AngleSector >= (k+1)/2
\* and  angle < 22.5*k  is  AngleSector <= (k-1)/2  for odd k.
AngleSector(d) ==
  LET gy == d[1]
      gx == d[2]
      ax == Abs(gx)
      ay == Abs(gy)
      below225 == (ax + ay) * (ax + ay) < 2 * ax * ax     \* ay < (sqrt2 - 1) ax
      below675 == ay <= ax \/ (ay - ax) * (ay - ax) < 2 * ax * ax
  IN  IF ax = 0 /\ ay = 0 THEN 0                          \* atan2(0, 0) = 0
      ELSE IF below225 THEN (IF gx > 0 THEN 0 ELSE IF gy >= 0 THEN 4 ELSE -4)
      ELSE IF below675 THEN (IF gx > 0 THEN (IF gy > 0 THEN 1 ELSE -1)
                                        ELSE (IF gy > 0 THEN 3 ELSE -3))
      ELSE (IF gy > 0 THEN 2 ELSE -2)

\* the offsets (relative to idx) of the two neighbours compared with idx
NmsNeighbours(d, width) ==
  LET a == AngleSector(d)
  IN  IF (a >= 0 /\ a <= 0) \/ (a >= 4 \/ a <= -4)
        THEN <<-1, 1>>
      ELSE IF (a >= 1 /\ a <= 1) \/ (a >= -3 /\ a <= -3)
        THEN <<-width + 1, width - 1>>
      ELSE IF (a >= 2 /\ a <= 2) \/ (a >= -2 /\ a <= -2)
        THEN <<-width, width>>
      ELSE <<-width - 1, width + 1>>

\* a suppression that keeps a pixel only when it exceeds both neighbours
nonMaxSuppression_strict(mag, dir, width, height) ==
  [idx \in 0..(width * height - 1) |->
     IF Interior(idx, width, height)
     THEN LET n    == NmsNeighbours(dir[idx], width)
              m    == mag[idx]
              mag1 == mag[idx + n[1]]
              mag2 == mag[idx + n[2]]
          IN  IF m > mag1 /\ m > mag2 THEN m ELSE 0
     ELSE 0]

nonMaxSuppression(mag, dir, width, height) ==
  [idx \in 0..(width * height - 1) |->
     IF Interior(idx, width, height)
     THEN LET n    == NmsNeighbours(dir[idx], width)
              m    == mag[idx]
              mag1 == mag[idx + n[1]]
              mag2 == mag[idx + n[2]]
          IN  IF m >= mag1 /\ m >= mag2 THEN m ELSE 0
     ELSE 0]

----------------------------------------------------------------------------
(* hysteresis *)

strong == 255
weak == 128

\* the comparison of lines 434 and 436 turned round
MagGE_turned(m2, threshold) == m2 <= threshold * threshold

\* magnitude[i] >= threshold, on the squared representation
MagGE(m2, threshold) == m2 >= threshold * threshold

\* the two tests of the first loop in the other order
DoubleThreshold_lowFirst(mag, low, high) ==
  [i \in DOMAIN mag |->
     IF MagGE(mag[i], low) THEN weak
     ELSE IF MagGE(mag[i], high) THEN strong
     ELSE 0]

\* first loop: the double threshold
DoubleThreshold(mag, low, high) ==
  [i \in DOMAIN mag |->
     IF MagGE(mag[i], high) THEN strong
     ELSE IF MagGE(mag[i], low) THEN weak
     ELSE 0]

\* a neighbour test that looks at the four edge-adjacent neighbours only
hasStrongNeighbor_4connected(e, idx, width) ==
  \E ky \in -1..1 : \E kx \in -1..1 :
     /\ (kx = 0) # (ky = 0)
     /\ e[idx + ky * width + kx] = strong

hasStrongNeighbor(e, idx, width) ==
  \E ky \in -1..1 : \E kx \in -1..1 :
     /\ ~(kx = 0 /\ ky = 0)
     /\ e[idx + ky * width + kx] = strong

\* line 462: what a weak pixel becomes
Resolve(hasStrong) == IF hasStrong THEN strong ELSE 0

RECURSIVE EdgeTracking(_, _, _, _)
\* second loop: the pixels idx, idx+1, ... in raster order, updating in place
EdgeTracking(e, idx, width, height) ==
  IF idx >= width * height THEN e
  ELSE IF Interior(idx, width, height) /\ e[idx] = weak
       THEN EdgeTracking([e EXCEPT ![idx] = Resolve(hasStrongNeighbor(e, idx, width))],
                         idx + 1, width, height)
       ELSE EdgeTracking(e, idx + 1, width, height)

hysteresis(mag, width, height, low, high) ==
  EdgeTracking(DoubleThreshold(mag, low, high), 0, width, height)

----------------------------------------------------------------------------
(* the RGBA conversion of the edge map, lines 510-519 *)

\* the alpha sample written from the edge value too
EdgesToRGBA_alphaFromEdge(e, width, height) ==
  [width  |-> width,
   height |-> height,
   data   |-> [i \in 0..(4 * width * height - 1) |-> e[i \div 4]]]

\* the output canvas sized height by width
EdgesToRGBA_transposed(e, width, height) ==
  [width  |-> height,
   height |-> width,
   data   |-> [i \in 0..(4 * width * height - 1) |->
                IF i % 4 = 3 THEN 255 ELSE e[i \div 4]]]

EdgesToRGBA(e, width, height) ==
  [width  |-> width,
   height |-> height,
   data   |-> [i \in 0..(4 * width * height - 1) |->
                IF i % 4 = 3 THEN 255 ELSE e[i \div 4]]]

----------------------------------------------------------------------------
(* Inputs *)

\* the positions of the rectangle x0..x1 by y0..y1
Rect(width, x0, x1, y0, y1) ==
  {y * width + x : x \in x0..x1, y \in y0..y1}

Painted(width, height, bg, fg, lit) ==
  [width  |-> width,
   height |-> height,
   data   |-> [i \in 0..(4 * width * height - 1) |->
                IF (i \div 4) \in lit THEN fg[(i % 4) + 1] ELSE bg[(i % 4) + 1]]]

\* the source images: a rectangle of one colour on a background of another
\* (uniform images, single pixels, lines, step edges, boxes)
Canvases ==
  UNION { { Painted(w, h, bg, fg, Rect(w, x0, x1, y0, y1)) :
              bg \in Palette, fg \in Palette,
              x0 \in 0..(w - 1), x1 \in 0..(w - 1), y0 \in 0..(h - 1), y1 \in 0..(h - 1) } :
          w \in 1..MaxW, h \in 1..MaxH }

----------------------------------------------------------------------------
(* applyCannyEdgeDetection, one action per statement group *)

CannyInit ==
  /\ pc = "call"
  /\ canvas \in Canvases
  /\ lowThreshold \in Thresholds
  /\ highThreshold \in Thresholds
  /\ imageData = None
  /\ blurred = None
  /\ gray = None
  /\ magnitude = None
  /\ direction = None
  /\ suppressed = None
  /\ edges = None
  /\ outputCanvas = None

\* lines 479-480: no 2D context
CannyNoContext ==
  /\ pc = "call"
  /\ pc' = "thrown"
  /\ UNCHANGED <<canvas, lowThreshold, highThreshold, imageData, blurred, gray,
                 magnitude, direction, suppressed, edges, outputCanvas>>
  /\ UNCHANGED besidesCanny

\* lines 479-486
CannyGetImageData ==
  /\ pc = "call"
  /\ imageData' = canvas
  /\ pc' = "blur"
  /\ UNCHANGED <<canvas, lowThreshold, highThreshold, blurred, gray,
                 magnitude, direction, suppressed, edges, outputCanvas>>
  /\ UNCHANGED besidesCanny

\* line 489
CannyBlur ==
  /\ pc = "blur"
  /\ blurred' = gaussianBlur(imageData, 2)
  /\ pc' = "gray"
  /\ UNCHANGED <<canvas, lowThreshold, highThreshold, imageData, gray,
                 magnitude, direction, suppressed, edges, outputCanvas>>
  /\ UNCHANGED besidesCanny

\* line 492
CannyGray ==
  /\ pc = "gray"
  /\ gray' = toGrayscale(blurred)
  /\ pc' = "sobel"
  /\ UNCHANGED <<canvas, lowThreshold, highThreshold, imageData, blurred,
                 magnitude, direction, suppressed, edges, outputCanvas>>
  /\ UNCHANGED besidesCanny

\* line 495
CannySobel ==
  /\ pc = "sobel"
  /\ LET g == sobelGradient(gray, canvas.width, canvas.height)
     IN  /\ magnitude' = g.magnitude
         /\ direction' = g.direction
  /\ pc' = "nms"
  /\ UNCHANGED <<canvas, lowThreshold, highThreshold, imageData, blurred, gray,
                 suppressed, edges, outputCanvas>>
  /\ UNCHANGED besidesCanny

\* line 498
CannyNMS ==
  /\ pc = "nms"
  /\ suppressed' = nonMaxSuppression(magnitude, direction, canvas.width, canvas.height)
  /\ pc' = "hysteresis"
  /\ UNCHANGED <<canvas, lowThreshold, highThreshold, imageData, blurred, gray,
                 magnitude, direction, edges, outputCanvas>>
  /\ UNCHANGED besidesCanny

\* a hysteresis that labels the pixels in the array it was given
CannyHysteresis_inPlace ==
  /\ pc = "hysteresis"
  /\ edges' = hysteresis(suppressed, canvas.width, canvas.height,
                         lowThreshold, highThreshold)
  /\ suppressed' = edges'
  /\ pc' = "output"
  /\ UNCHANGED <<canvas, lowThreshold, highThreshold, imageData, blurred, gray,
                 magnitude, direction, outputCanvas>>
  /\ UNCHANGED besidesCanny

\* line 501
CannyHysteresis ==
  /\ pc = "hysteresis"
  /\ edges' = hysteresis(suppressed, canvas.width, canvas.height,
                         lowThreshold, highThreshold)
  /\ pc' = "output"
  /\ UNCHANGED <<canvas, lowThreshold, highThreshold, imageData, blurred, gray,
                 magnitude, direction, suppressed, outputCanvas>>
  /\ UNCHANGED besidesCanny

\* lines 504-508: no 2D context on the output canvas
CannyNoOutputContext ==
  /\ pc = "output"
  /\ pc' = "thrown"
  /\ UNCHANGED <<canvas, lowThreshold, highThreshold, imageData, blurred, gray,
                 magnitude, direction, suppressed, edges, outputCanvas>>
  /\ UNCHANGED besidesCanny

\* lines 504-523
CannyOutput ==
  /\ pc = "output"
  /\ outputCanvas' = EdgesToRGBA(edges, canvas.width, canvas.height)
  /\ pc' = "done"
  /\ UNCHANGED <<canvas, lowThreshold, highThreshold, imageData, blurred, gray,
                 magnitude, direction, suppressed, edges>>
  /\ UNCHANGED besidesCanny

----------------------------------------------------------------------------
(* JavaScript Map, kept as the sequence of its entries in insertion order *)

MapHas(m, k) == \E i \in 1..Len(m) : m[i].key = k
MapGet(m, k) == m[CHOOSE i \in 1..Len(m) : m[i].key = k].value
\* a map whose set keeps the value a key already has
MapSet_keepFirst(m, k, v) ==
  IF MapHas(m, k) THEN m ELSE Append(m, [key |-> k, value |-> v])
MapSet(m, k, v) ==
  IF MapHas(m, k)
  THEN [i \in 1..Len(m) |-> IF m[i].key = k THEN [key |-> k, value |-> v] ELSE m[i]]
  ELSE Append(m, [key |-> k, value |-> v])
MapValues(m) == {m[i].value : i \in 1..Len(m)}
MapClear(m) == <<>>

----------------------------------------------------------------------------
(* WebGLRenderer *)

Effects == <<"grayscale", "edge", "invert">>     \* in the order initializeShaders builds them
EffectNames == {Effects[i] : i \in 1..Len(Effects)}
RenderEffects == {"grayscale", "edge", "invert", "original"}

\* what gl.createShader + compileShader can do for one shader (createShader)
ShaderOutcomes == {"ok", "null", "compileError"}
\* what gl.createProgram + linkProgram can do for one program (createProgram)
ProgramOutcomes == {"ok", "null", "linkError"}

Program(n) == <<"program", n>>
Texture(n) == <<"texture", n>>
Call(name, handle) == [call |-> name, handle |-> handle]
NoHandle == <<>>
Null == <<"null", 0>>                            \* JavaScript null / no object bound

\* an operation that asks for no context and builds no shader or program
NoBuild == [context |-> "none", vertex |-> "skipped",
            fragment |-> [e \in EffectNames |-> "skipped"],
            link |-> [e \in EffectNames |-> "skipped"]]

GLIdle ==
  /\ inst = "none"
  /\ programs = <<>>
  /\ textures = <<>>
  /\ currentProgram = Null
  /\ glLive = {}
  /\ glDeleted = {}
  /\ nextHandle = 1
  /\ boundTexture = Null
  /\ canvasSize = <<300, 150>>
  /\ glCalls = <<>>
  /\ consoleErrors = <<>>
  /\ lastOp = [op |-> "none", arg |-> "", result |-> "ok"]
  /\ glBuild = NoBuild
  /\ disposed = FALSE
  /\ latestMain = Null

\* createProgram (lines 29-48) for one effect, given the link outcome; st is
\* [programs, live, deleted, next, calls, errors]
CreateProgramFor(st, effect, outcome) ==
  LET h == Program(st.next)
  IN  IF outcome = "null" THEN st
      ELSE IF outcome = "linkError"
      THEN [st EXCEPT !.deleted = @ \cup {h},
                      !.next = @ + 1,
                      !.calls = @ \o <<Call("createProgram", h), Call("linkProgram", h),
                                       Call("deleteProgram", h)>>,
                      !.errors = Append(@, "Program link error")]
      ELSE [st EXCEPT !.programs = MapSet(@, effect, h),
                      !.live = @ \cup {h},
                      !.next = @ + 1,
                      !.calls = @ \o <<Call("createProgram", h), Call("linkProgram", h)>>]

RECURSIVE InitializeEffects_stopsAtFailure(_, _, _, _)
\* initializeShaders that returns at the first effect it cannot build
InitializeEffects_stopsAtFailure(st, i, fs, ln) ==
  IF i > Len(Effects) THEN st
  ELSE LET e == Effects[i]
       IN  IF fs[e] = "ok" /\ ln[e] = "ok"
           THEN InitializeEffects_stopsAtFailure(CreateProgramFor(st, e, ln[e]), i + 1, fs, ln)
           ELSE [st EXCEPT !.errors = Append(@, "Shader compile error")]

RECURSIVE InitializeEffects(_, _, _, _)
\* initializeShaders, lines 149-168: the effects i.. of Effects
InitializeEffects(st, i, fs, ln) ==
  IF i > Len(Effects) THEN st
  ELSE LET e == Effects[i]
           afterShader == IF fs[e] = "compileError"
                          THEN [st EXCEPT !.errors = Append(@, "Shader compile error")]
                          ELSE st
       IN  IF fs[e] = "ok"
           THEN InitializeEffects(CreateProgramFor(st, e, ln[e]), i + 1, fs, ln)
           ELSE InitializeEffects(afterShader, i + 1, fs, ln)

\* the calls the constructor got to make and what each gave: canvas.getContext
\* (lines 134-137), createShader of the vertex shader (lines 146-147), and per
\* effect createShader of its fragment shader and createProgram (lines 156-167)
BuildLog(ctxOk, vs, fs, ln) ==
  [context  |-> IF ctxOk THEN "ok" ELSE "null",
   vertex   |-> IF ctxOk THEN vs ELSE "skipped",
   fragment |-> [e \in EffectNames |-> IF ctxOk /\ vs = "ok" THEN fs[e] ELSE "skipped"],
   link     |-> [e \in EffectNames |->
                   IF ctxOk /\ vs = "ok" /\ fs[e] = "ok" THEN ln[e] ELSE "skipped"]]

\* a constructor that goes on without a context
NoContext_ignored(ctxOk) == FALSE

\* if (!gl), line 135
NoContext(ctxOk) == ~ctxOk

\* constructor, lines 133-140, with initializeShaders, lines 145-169
ConstructCall ==
  /\ inst = "none"
  /\ \E ctxOk \in BOOLEAN, vs \in ShaderOutcomes,
        fs \in [EffectNames -> ShaderOutcomes],
        ln \in [EffectNames -> ProgramOutcomes] :
       /\ glBuild' = BuildLog(ctxOk, vs, fs, ln)
       /\ IF NoContext(ctxOk)
          THEN /\ inst' = "failed"
               /\ lastOp' = [op |-> "constructor", arg |-> "", result |-> "throw"]
               /\ consoleErrors' = <<>>
               /\ glCalls' = <<>>
               /\ UNCHANGED <<programs, glLive, glDeleted, nextHandle>>
          ELSE IF vs # "ok"
          THEN /\ inst' = "failed"
               /\ lastOp' = [op |-> "constructor", arg |-> "", result |-> "throw"]
               /\ consoleErrors' = IF vs = "compileError" THEN <<"Shader compile error">>
                                                          ELSE <<>>
               /\ glCalls' = <<>>
               /\ UNCHANGED <<programs, glLive, glDeleted, nextHandle>>
          ELSE LET st == InitializeEffects([programs |-> programs, live |-> glLive,
                                            deleted |-> glDeleted, next |-> nextHandle,
                                            calls |-> <<>>, errors |-> <<>>], 1, fs, ln)
               IN  /\ inst' = "live"
                   /\ programs' = st.programs
                   /\ glLive' = st.live
                   /\ glDeleted' = st.deleted
                   /\ nextHandle' = st.next
                   /\ glCalls' = st.calls
                   /\ consoleErrors' = st.errors
                   /\ lastOp' = [op |-> "constructor", arg |-> "", result |-> "ok"]
  /\ UNCHANGED <<textures, currentProgram, boundTexture, canvasSize, disposed,
                 latestMain>>

\* new WebGLRenderer(canvas) on a renderer of its own, outside renderWithWebGL
Construct == ConstructCall /\ UNCHANGED besidesGL

\* loadTexture, lines 174-189
LoadTextureCall ==
  /\ inst = "live"
  /\ nextHandle <= MaxTextures + Len(Effects)
  /\ \E name \in TextureNames, created \in BOOLEAN :
       IF ~created
       THEN /\ lastOp' = [op |-> "loadTexture", arg |-> name, result |-> "throw"]
            /\ glCalls' = <<>>
            /\ UNCHANGED <<textures, glLive, nextHandle, boundTexture, latestMain>>
       ELSE LET t == Texture(nextHandle)
            IN  /\ textures' = MapSet(textures, name, t)
                /\ latestMain' = IF name = "main" THEN t ELSE latestMain
                /\ boundTexture' = t
                /\ glLive' = glLive \cup {t}
                /\ nextHandle' = nextHandle + 1
                /\ glCalls' = <<Call("createTexture", t), Call("bindTexture", t),
                                Call("texImage2D", NoHandle)>>
                /\ lastOp' = [op |-> "loadTexture", arg |-> name, result |-> "ok"]
  /\ consoleErrors' = <<>>
  /\ glBuild' = NoBuild
  /\ UNCHANGED <<inst, programs, currentProgram, glDeleted, canvasSize, disposed>>

\* loadTexture on a renderer of its own, outside renderWithWebGL
LoadTexture == LoadTextureCall /\ UNCHANGED besidesGL

\* gl.drawArrays(gl.TRIANGLE_STRIP, 0, 4), line 260: the draw runs the program in
\* use and samples the bound texture
DrawCall(program, texture) ==
  [call |-> "drawArrays", handle |-> <<program, texture>>,
   mode |-> "TRIANGLE_STRIP", first |-> 0, count |-> 4]

\* a render that draws the quad and clears the target afterwards
ClearAndDraw_drawFirst(program, texture) ==
  <<DrawCall(program, texture), Call("clear", NoHandle)>>

\* the last two context calls of render, lines 258-260
ClearAndDraw(program, texture) ==
  <<Call("clear", NoHandle), DrawCall(program, texture)>>

\* the context calls of render for a program that exists, lines 209-260
RenderCalls(program, effect, texs, bound) ==
  <<Call("useProgram", program),
    Call("getAttribLocation", program),
    Call("getAttribLocation", program)>>
  \o (IF effect = "edge"
      THEN <<Call("getUniformLocation", program), Call("uniform2f", NoHandle)>>
      ELSE <<>>)
  \o (IF MapHas(texs, "main")
      THEN <<Call("bindTexture", MapGet(texs, "main")),
             Call("getUniformLocation", program), Call("uniform1i", NoHandle)>>
      ELSE <<>>)
  \o ClearAndDraw(program, IF MapHas(texs, "main") THEN MapGet(texs, "main") ELSE bound)

\* a passthrough that draws as well as clears
OriginalCalls_drawn == <<Call("clear", NoHandle), Call("drawArrays", <<Null, Null>>)>>

\* the context calls of render("original"), lines 197-201
OriginalCalls == <<Call("clear", NoHandle)>>

\* a render that clears before it looks the program up
MissingProgramCalls_cleared == <<Call("clear", NoHandle)>>

\* the context calls of render when programs has no entry for the effect, lines 203-207
MissingProgramCalls == <<>>

\* render, lines 194-261
RenderCall ==
  /\ inst = "live"
  /\ \E effect \in RenderEffects :
       /\ lastOp' = [op |-> "render", arg |-> effect, result |-> "ok"]
       /\ IF effect = "original"
          THEN /\ glCalls' = OriginalCalls
               /\ consoleErrors' = <<>>
               /\ UNCHANGED <<currentProgram, boundTexture>>
          ELSE IF ~MapHas(programs, effect)
          THEN /\ glCalls' = MissingProgramCalls
               /\ consoleErrors' = <<"Shader program not found">>
               /\ UNCHANGED <<currentProgram, boundTexture>>
          ELSE /\ glCalls' = RenderCalls(MapGet(programs, effect), effect, textures,
                                         boundTexture)
               /\ consoleErrors' = <<>>
               /\ currentProgram' = MapGet(programs, effect)
               /\ boundTexture' = IF MapHas(textures, "main") THEN MapGet(textures, "main")
                                                                ELSE boundTexture
  /\ glBuild' = NoBuild
  /\ UNCHANGED <<inst, programs, textures, glLive, glDeleted, nextHandle, canvasSize, disposed,
                 latestMain>>

\* render on a renderer of its own, outside renderWithWebGL
Render == RenderCall /\ UNCHANGED besidesGL

\* resize, lines 266-270
ResizeCall ==
  /\ inst = "live"
  /\ \E size \in Sizes :
       /\ canvasSize' = size
       /\ lastOp' = [op |-> "resize", arg |-> size, result |-> "ok"]
  /\ glCalls' = <<Call("viewport", NoHandle)>>
  /\ consoleErrors' = <<>>
  /\ glBuild' = NoBuild
  /\ UNCHANGED <<inst, programs, textures, currentProgram, glLive, glDeleted, nextHandle,
                 boundTexture, disposed, latestMain>>

\* resize on a renderer of its own, outside renderWithWebGL
Resize == ResizeCall /\ UNCHANGED besidesGL

\* the objects dispose hands to deleteTexture and deleteProgram, lines 276-277
DisposeDeletes(texs, progs) == MapValues(texs) \cup MapValues(progs)

\* the maps after dispose, lines 278-279
DisposedTextures(texs) == MapClear(texs)
\* dispose without this.programs.clear()
DisposedPrograms_kept(progs) == progs

DisposedPrograms(progs) == MapClear(progs)

\* dispose, lines 275-280
Dispose ==
  /\ inst = "live"
  /\ glCalls' = [i \in 1..Len(textures) |-> Call("deleteTexture", textures[i].value)]
                \o [i \in 1..Len(programs) |-> Call("deleteProgram", programs[i].value)]
  /\ glDeleted' = glDeleted \cup DisposeDeletes(textures, programs)
  /\ glLive' = glLive \ DisposeDeletes(textures, programs)
  \* deleting the bound texture reverts the binding to the default texture
  /\ boundTexture' = IF boundTexture \in DisposeDeletes(textures, programs)
                     THEN Null ELSE boundTexture
  /\ textures' = DisposedTextures(textures)
  /\ programs' = DisposedPrograms(programs)
  /\ disposed' = TRUE
  /\ UNCHANGED latestMain
  /\ consoleErrors' = <<>>
  /\ lastOp' = [op |-> "dispose", arg |-> "", result |-> "ok"]
  /\ glBuild' = NoBuild
  /\ UNCHANGED <<inst, currentProgram, nextHandle, canvasSize>>
  /\ UNCHANGED besidesGL

GLNext ==
  \/ Construct
  \/ LoadTexture
  \/ Render
  \/ Resize
  \/ Dispose

-----------------------------------------------------------------------------
(* renderWithWebGL, lines 286-297 *)

\* no call of renderWithWebGL
RwIdle == rw = [pc |-> "idle", effect |-> "original"]

\* the call has been made with one of the effects its signature admits
RwInit == \E effect \in RenderEffects : rw = [pc |-> "new", effect |-> effect]

\* line 291: const renderer = new WebGLRenderer(canvas); an exception leaves the call
RwConstruct ==
  /\ rw.pc = "new"
  /\ ConstructCall
  /\ rw' = [rw EXCEPT !.pc = IF lastOp'.result = "throw" THEN "thrown" ELSE "resize"]
  /\ UNCHANGED besidesRW

\* lines 292-294: the canvas takes the size of the image, renderer.resize(...)
RwResize ==
  /\ rw.pc = "resize"
  /\ ResizeCall
  /\ rw' = [rw EXCEPT !.pc = "loadTexture"]
  /\ UNCHANGED besidesRW

\* line 295: renderer.loadTexture(image), name defaulted to "main"
RwLoadTexture ==
  /\ rw.pc = "loadTexture"
  /\ LoadTextureCall
  /\ lastOp'.arg = "main"
  /\ rw' = [rw EXCEPT !.pc = IF lastOp'.result = "throw" THEN "thrown" ELSE "render"]
  /\ UNCHANGED besidesRW

\* line 296: renderer.render(effect), after which the function returns
RwRender ==
  /\ rw.pc = "render"
  /\ RenderCall
  /\ lastOp'.arg = rw.effect
  /\ rw' = [rw EXCEPT !.pc = "returned"]
  /\ UNCHANGED besidesRW

RwNext ==
  \/ RwConstruct
  \/ RwResize
  \/ RwLoadTexture
  \/ RwRender

----------------------------------------------------------------------------
(* hysteresis, one statement at a time: the double threshold loop as one step, *)
(* then one step per interior pixel of the edge tracking loop, in raster order *)

\* the shapes and magnitudes hysteresis is called with here: the border is 0, as
\* nonMaxSuppression leaves it, and an interior magnitude is 0, 50, 150 or 300
HystShapes == {<<3, 3>>, <<4, 3>>, <<5, 3>>, <<4, 4>>}
MagLevels == {0, 50 * 50, 150 * 150, 300 * 300}
HystMagnitudes(width, height) ==
  LET inner == {i \in 0..(width * height - 1) : Interior(i, width, height)}
  IN  {[i \in 0..(width * height - 1) |-> IF i \in inner THEN f[i] ELSE 0] :
         f \in [inner -> MagLevels]}

HystIdle ==
  hyst = [pc |-> "idle", magnitude |-> None, width |-> 0, height |-> 0,
          lowThreshold |-> 0, highThreshold |-> 0, edges |-> None, y |-> 0, x |-> 0]

\* the call, with edges = new Uint8ClampedArray(width * height), lines 421-430
HystInit ==
  \E shape \in HystShapes :
    \E m \in HystMagnitudes(shape[1], shape[2]), low \in Thresholds, high \in Thresholds :
      hyst = [pc |-> "threshold", magnitude |-> m, width |-> shape[1], height |-> shape[2],
              lowThreshold |-> low, highThreshold |-> high,
              edges |-> [i \in 0..(shape[1] * shape[2] - 1) |-> 0], y |-> 0, x |-> 0]

\* lines 432-439, then the loop heads of lines 442-443
HystDoubleThreshold ==
  /\ hyst.pc = "threshold"
  /\ hyst' = [hyst EXCEPT
                !.edges = DoubleThreshold(hyst.magnitude, hyst.lowThreshold,
                                          hyst.highThreshold),
                !.pc = IF 1 < hyst.height - 1 /\ 1 < hyst.width - 1 THEN "track"
                                                                    ELSE "return",
                !.y = 1,
                !.x = 1]
  /\ UNCHANGED besidesHyst

\* one pass of the loop body, lines 444-463, for the pixel (x, y)
HystVisit ==
  /\ hyst.pc = "track"
  /\ LET idx == hyst.y * hyst.width + hyst.x
         rowEnds == ~(hyst.x + 1 < hyst.width - 1)
         yNext == IF rowEnds THEN hyst.y + 1 ELSE hyst.y
     IN  hyst' = [hyst EXCEPT
                    !.edges = IF hyst.edges[idx] = weak
                              THEN [@ EXCEPT ![idx] =
                                      Resolve(hasStrongNeighbor(hyst.edges, idx, hyst.width))]
                              ELSE @,
                    !.x = IF rowEnds THEN 1 ELSE hyst.x + 1,
                    !.y = yNext,
                    !.pc = IF yNext < hyst.height - 1 THEN "track" ELSE "return"]
  /\ UNCHANGED besidesHyst

\* return edges, line 467
HystReturn ==
  /\ hyst.pc = "return"
  /\ hyst' = [hyst EXCEPT !.pc = "returned"]
  /\ UNCHANGED besidesHyst

HystNext ==
  \/ HystDoubleThreshold
  \/ HystVisit
  \/ HystReturn

----------------------------------------------------------------------------
(* applySobelEdgeDetection, lines 529-565 *)

RECURSIVE FracLE(_, _, _, _)
\* a/b <= c/d for a, c >= 0 and b, d > 0, by the continued fractions of both
\* sides (no product is formed, the operands stay below 2^31)
FracLE(a, b, c, d) ==
  IF a \div b # c \div d THEN a \div b < c \div d
  ELSE IF a % b = 0 THEN TRUE
  ELSE IF c % d = 0 THEN FALSE
  ELSE FracLE(d, c % d, b, a % b)

\* 255 * sqrt(m2 / max2) stored into a Uint8ClampedArray rounds to k or more:
\* 255 * sqrt(m2 / max2) > k - 1/2, or equal to it with k even (ties to even)
RoundsToAtLeast(k, m2, max2) ==
  LET h == (2 * k - 1) * (2 * k - 1)
  IN  /\ FracLE(h, 510 * 510, m2, max2)
      /\ (k % 2 = 0 \/ ~FracLE(m2, max2, h, 510 * 510))

RECURSIVE LargestRounded(_, _, _, _)
\* the largest k in lo..hi with RoundsToAtLeast(k, m2, max2), which holds for lo
LargestRounded(lo, hi, m2, max2) ==
  IF lo = hi THEN lo
  ELSE LET mid == (lo + hi + 1) \div 2
       IN  IF RoundsToAtLeast(mid, m2, max2)
           THEN LargestRounded(mid, hi, m2, max2)
           ELSE LargestRounded(lo, mid - 1, m2, max2)

\* (sqrt m2 / sqrt max2) * 255 as the Uint8ClampedArray stores it, for
\* 0 <= m2 <= max2 and max2 > 0: the exact value rounded to the nearest integer.
\* The floating-point quotient of the two Float32 square roots can fall on the
\* other side of a tie when the exact value lies within about 1e-5 of k + 1/2;
\* for m2 = max2 the quotient is exactly 1 and the value exactly 255.
RoundedRatio255(m2, max2) == LargestRounded(0, 255, m2, max2)

\* the loop of lines 543-546 over the squares
MaxMagnitude(mag) ==
  CHOOSE m \in {mag[i] : i \in DOMAIN mag} \cup {0} :
    \A i \in DOMAIN mag : mag[i] <= m

\* a normalization against the largest magnitude an 8-bit image can have
NormalizedValue_fixedScale(m2, max2) == RoundedRatio255(m2, 2 * 1020 * 1020)

\* line 556 and the store of lines 557-559: Math.min(255, (magnitude[i] / maxMag)
\* * 255); with maxMag = 0 the quotient 0 / 0 is NaN, which is stored as 0
NormalizedValue(m2, max2) ==
  IF max2 = 0 THEN 0 ELSE Min(255, RoundedRatio255(m2, max2))

\* lines 555-561
MagnitudeToRGBA(mag, max2, width, height) ==
  [width  |-> width,
   height |-> height,
   data   |-> [i \in 0..(4 * width * height - 1) |->
                IF i % 4 = 3 THEN 255 ELSE NormalizedValue(mag[i \div 4], max2)]]

SobelIdle ==
  sobel = [pc |-> "idle", canvas |-> None, imageData |-> None, gray |-> None,
           magnitude |-> None, maxMag |-> 0, outputCanvas |-> None]

\* the call, line 529
SobelInit ==
  \E c \in Canvases :
    sobel = [pc |-> "call", canvas |-> c, imageData |-> None, gray |-> None,
             magnitude |-> None, maxMag |-> 0, outputCanvas |-> None]

\* lines 530-531: canvas.getContext("2d") gives null
SobelNoContext ==
  /\ sobel.pc = "call"
  /\ sobel' = [sobel EXCEPT !.pc = "thrown"]
  /\ UNCHANGED besidesSobel

\* lines 530-535
SobelGetImageData ==
  /\ sobel.pc = "call"
  /\ sobel' = [sobel EXCEPT !.imageData = sobel.canvas, !.pc = "gray"]
  /\ UNCHANGED besidesSobel

\* line 537
SobelGray ==
  /\ sobel.pc = "gray"
  /\ sobel' = [sobel EXCEPT !.gray = toGrayscale(sobel.imageData), !.pc = "sobel"]
  /\ UNCHANGED besidesSobel

\* line 538
SobelMagnitude ==
  /\ sobel.pc = "sobel"
  /\ sobel' = [sobel EXCEPT
                 !.magnitude = sobelGradient(sobel.gray, sobel.canvas.width,
                                             sobel.canvas.height).magnitude,
                 !.pc = "max"]
  /\ UNCHANGED besidesSobel

\* lines 541-546
SobelMaxMag ==
  /\ sobel.pc = "max"
  /\ sobel' = [sobel EXCEPT !.maxMag = MaxMagnitude(sobel.magnitude), !.pc = "output"]
  /\ UNCHANGED besidesSobel

\* lines 548-552: outputCanvas.getContext("2d") gives null
SobelNoOutputContext ==
  /\ sobel.pc = "output"
  /\ sobel' = [sobel EXCEPT !.pc = "thrown"]
  /\ UNCHANGED besidesSobel

\* lines 548-564
SobelOutput ==
  /\ sobel.pc = "output"
  /\ sobel' = [sobel EXCEPT
                 !.outputCanvas = MagnitudeToRGBA(sobel.magnitude, sobel.maxMag,
                                                  sobel.canvas.width, sobel.canvas.height),
                 !.pc = "done"]
  /\ UNCHANGED besidesSobel

SobelNext ==
  \/ SobelNoContext
  \/ SobelGetImageData
  \/ SobelGray
  \/ SobelMagnitude
  \/ SobelMaxMag
  \/ SobelNoOutputContext
  \/ SobelOutput

----------------------------------------------------------------------------
(* App, ImageUploader and EdgeDetectionViewer: the component state, the user's *)
(* controls, the webcam frame timer and the processImage calls in flight.      *)
(* An image is known by its data URL; a processed image by the call that made  *)
(* it: the image it was given and the branch it took.  The thresholds and the  *)
(* effect a call captured decide the pixels only, which have no part here.     *)

MaxRuns == 1                          \* processImage calls in flight at a time

UploadUrls == {"file"}                \* data URLs of uploaded or sample images
FrameUrls == {"frameA", "frameB"}     \* data URLs of webcam frames
SliderValues == {50, 150}             \* positions the two threshold sliders take
ViewModes == {"original", "processed", "split"}

NoUrl == "null"                                   \* useState<string | null>(null)
NoProcessed == [src |-> NoUrl, useWebGL |-> FALSE, stage |-> "none"]

\* useState initial values: App.tsx lines 15-25, ImageUploader line 311,
\* EdgeDetectionViewer lines 138-143
AppInit ==
  /\ app = [imageData |-> NoUrl, processedImage |-> NoProcessed,
            stats |-> [renderMode |-> "Canvas 2D"],
            isProcessing |-> FALSE, isLiveMode |-> FALSE]
  /\ uploader = [isWebcamActive |-> FALSE, lastFrame |-> NoUrl]
  /\ viewer = [viewMode |-> "original", lowThreshold |-> 50, highThreshold |-> 150,
               isAutoProcessing |-> FALSE, useWebGL |-> FALSE]
  /\ runs = {}

\* processImage, StatsPanel.tsx lines 145-199, up to img.src = originalImage, called
\* in a render whose viewer state is v and whose originalImage is img; a is the
\* App state the call finds
processImage(a, v, img) ==
  IF img = NoUrl
  THEN app' = a /\ runs' = runs
  ELSE /\ app' = [a EXCEPT !.isProcessing = TRUE]
       /\ \E ctxOk \in BOOLEAN :
            runs' = IF ctxOk
                    THEN runs \cup {[src |-> img, useWebGL |-> v.useWebGL,
                                     stage |-> "load"]}
                    ELSE runs

\* the effect of lines 201-205, run because one of lowThreshold, highThreshold,
\* isAutoProcessing changed; v is the viewer state after the change
AutoProcessEffect(v) ==
  IF v.isAutoProcessing /\ app.imageData # NoUrl
  THEN processImage(app, v, app.imageData)
  ELSE UNCHANGED <<app, runs>>

\* handleImageUpload, App.tsx lines 27-31, from a file, a drop or the sample image
ImageUpload ==
  /\ \E url \in UploadUrls :
       app' = [app EXCEPT !.imageData = url, !.processedImage = NoProcessed,
                          !.isLiveMode = FALSE]
  /\ UNCHANGED <<uploader, viewer, runs>>
  /\ UNCHANGED besidesApp

\* startWebcam, part_001 lines 382-399, when the camera is granted
StartWebcam ==
  /\ ~uploader.isWebcamActive
  /\ uploader' = [uploader EXCEPT !.isWebcamActive = TRUE]
  /\ UNCHANGED <<app, viewer, runs>>
  /\ UNCHANGED besidesApp

\* stopWebcam, part_001 lines 401-409; the timer is cleared with its last frame
StopWebcam ==
  /\ uploader.isWebcamActive
  /\ uploader' = [uploader EXCEPT !.isWebcamActive = FALSE, !.lastFrame = NoUrl]
  /\ UNCHANGED <<app, viewer, runs>>
  /\ UNCHANGED besidesApp

\* captureWebcamFrame, part_001 lines 411-424: the frame goes to onImageUpload
CaptureWebcamFrame ==
  /\ uploader.isWebcamActive
  /\ \E url \in FrameUrls :
       app' = [app EXCEPT !.imageData = url, !.processedImage = NoProcessed,
                          !.isLiveMode = FALSE]
  /\ UNCHANGED <<uploader, viewer, runs>>
  /\ UNCHANGED besidesApp

\* a handler that takes every frame
handleWebcamFrame_always(a, dataUrl) == [a EXCEPT !.imageData = dataUrl]

\* handleWebcamFrame, App.tsx lines 33-37: the App state it leaves, from state a
handleWebcamFrame(a, dataUrl) ==
  IF a.isLiveMode THEN [a EXCEPT !.imageData = dataUrl] ELSE a

\* the interval callback of part_001 lines 430-442, which hands the frame to
\* handleWebcamFrame
WebcamFrame ==
  /\ uploader.isWebcamActive
  /\ \E url \in FrameUrls :
       /\ uploader' = [uploader EXCEPT !.lastFrame = url]
       /\ app' = handleWebcamFrame(app, url)
  /\ UNCHANGED <<viewer, runs>>
  /\ UNCHANGED besidesApp

\* the Live Processing checkbox, App.tsx lines 100-105
ToggleLiveMode ==
  /\ app' = [app EXCEPT !.isLiveMode = ~@]
  /\ UNCHANGED <<uploader, viewer, runs>>
  /\ UNCHANGED besidesApp

\* the Process Image button, StatsPanel.tsx lines 294-299
ProcessClick ==
  /\ app.imageData # NoUrl
  /\ Cardinality(runs) < MaxRuns
  /\ processImage(app, viewer, app.imageData)
  /\ UNCHANGED <<uploader, viewer>>
  /\ UNCHANGED besidesApp

\* the Low Threshold slider, StatsPanel.tsx lines 400-408, then the effect
SetLowThreshold ==
  /\ ~viewer.useWebGL
  /\ Cardinality(runs) < MaxRuns
  /\ \E value \in SliderValues \ {viewer.lowThreshold} :
       /\ viewer' = [viewer EXCEPT !.lowThreshold = value]
       /\ AutoProcessEffect(viewer')
  /\ UNCHANGED uploader
  /\ UNCHANGED besidesApp

\* the High Threshold slider, StatsPanel.tsx lines 413-421, then the effect
SetHighThreshold ==
  /\ ~viewer.useWebGL
  /\ Cardinality(runs) < MaxRuns
  /\ \E value \in SliderValues \ {viewer.highThreshold} :
       /\ viewer' = [viewer EXCEPT !.highThreshold = value]
       /\ AutoProcessEffect(viewer')
  /\ UNCHANGED uploader
  /\ UNCHANGED besidesApp

\* the Auto-process checkbox, StatsPanel.tsx lines 331-336, then the effect
ToggleAutoProcessing ==
  /\ Cardinality(runs) < MaxRuns
  /\ viewer' = [viewer EXCEPT !.isAutoProcessing = ~@]
  /\ AutoProcessEffect(viewer')
  /\ UNCHANGED uploader
  /\ UNCHANGED besidesApp

\* the Use WebGL Rendering checkbox, StatsPanel.tsx lines 346-350
ToggleWebGL ==
  /\ viewer' = [viewer EXCEPT !.useWebGL = ~@]
  /\ UNCHANGED <<app, uploader, runs>>
  /\ UNCHANGED besidesApp

\* the view mode buttons, StatsPanel.tsx lines 259-290: Processed and Split are
\* disabled while there is no processed image
SetViewMode ==
  /\ \E mode \in ViewModes :
       /\ mode # "original" => app.processedImage # NoProcessed
       /\ viewer' = [viewer EXCEPT !.viewMode = mode]
  /\ UNCHANGED <<app, uploader, runs>>
  /\ UNCHANGED besidesApp

\* handleProcessedImage, App.tsx lines 39-43, called as onProcessComplete by the
\* processImage call run: the App state it leaves, from state a
handleProcessedImage(a, run) ==
  [a EXCEPT !.processedImage = [run EXCEPT !.stage = "done"],
            !.stats = [renderMode |-> IF run.useWebGL THEN "WebGL (GPU)"
                                                      ELSE "Canvas 2D"],
            !.isProcessing = FALSE]

\* the image does not decode: processImage sets no img.onerror (StatsPanel.tsx
\* lines 152-198), so the call ends without a callback
ImageLoadError ==
  /\ \E run \in runs :
       /\ run.stage = "load"
       /\ runs' = runs \ {run}
  /\ UNCHANGED <<app, uploader, viewer>>
  /\ UNCHANGED besidesApp

\* img.onload, StatsPanel.tsx lines 153-196: the Canvas 2D branch computes the edges
\* and calls onProcessComplete (App.tsx lines 39-43); the WebGL branch starts the
\* import of the renderer
ImageLoaded ==
  /\ \E run \in runs :
       /\ run.stage = "load"
       /\ IF run.useWebGL
          THEN /\ runs' = (runs \ {run}) \cup {[run EXCEPT !.stage = "import"]}
               /\ app' = app
          ELSE /\ runs' = runs \ {run}
               /\ app' = handleProcessedImage(app, run)
  /\ UNCHANGED <<uploader, viewer>>
  /\ UNCHANGED besidesApp

\* the callback of the import, StatsPanel.tsx lines 164-179: renderWithWebGL either
\* throws (no WebGL, no texture), and onProcessComplete is never called, or returns
WebGLRendered ==
  /\ \E run \in runs :
       /\ run.stage = "import"
       /\ runs' = runs \ {run}
       /\ \E rendered \in BOOLEAN :
            app' = IF rendered THEN handleProcessedImage(app, run) ELSE app
  /\ UNCHANGED <<uploader, viewer>>
  /\ UNCHANGED besidesApp

AppIdle ==
  /\ app = [imageData |-> NoUrl, processedImage |-> NoProcessed,
            stats |-> [renderMode |-> "Canvas 2D"],
            isProcessing |-> FALSE, isLiveMode |-> FALSE]
  /\ uploader = [isWebcamActive |-> FALSE, lastFrame |-> NoUrl]
  /\ viewer = [viewMode |-> "original", lowThreshold |-> 50, highThreshold |-> 150,
               isAutoProcessing |-> FALSE, useWebGL |-> FALSE]
  /\ runs = {}

AppNext ==
  \/ ImageUpload
  \/ StartWebcam
  \/ StopWebcam
  \/ CaptureWebcamFrame
  \/ WebcamFrame
  \/ ToggleLiveMode
  \/ ProcessClick
  \/ SetLowThreshold
  \/ SetHighThreshold
  \/ ToggleAutoProcessing
  \/ ToggleWebGL
  \/ SetViewMode
  \/ ImageLoaded
  \/ ImageLoadError
  \/ WebGLRendered

----------------------------------------------------------------------------
(* Specifications *)

\* no call of applyCannyEdgeDetection in progress
CannyIdle ==
  /\ pc = "idle"
  /\ canvas = None
  /\ lowThreshold = 50
  /\ highThreshold = 150
  /\ imageData = None
  /\ blurred = None
  /\ gray = None
  /\ magnitude = None
  /\ direction = None
  /\ suppressed = None
  /\ edges = None
  /\ outputCanvas = None

CannyNext ==
  \/ CannyNoContext
  \/ CannyGetImageData
  \/ CannyBlur
  \/ CannyGray
  \/ CannySobel
  \/ CannyNMS
  \/ CannyHysteresis
  \/ CannyNoOutputContext
  \/ CannyOutput

\* one call of applyCannyEdgeDetection, no renderer
InitCanny == CannyInit /\ GLIdle /\ RwIdle /\ HystIdle /\ SobelIdle /\ AppIdle
SpecCanny == InitCanny /\ [][CannyNext]_vars

\* one WebGLRenderer and the calls made on it, no Canny call
InitGL == CannyIdle /\ GLIdle /\ RwIdle /\ HystIdle /\ SobelIdle /\ AppIdle
SpecGL == InitGL /\ [][GLNext]_vars

\* one call of renderWithWebGL
InitRW == CannyIdle /\ GLIdle /\ RwInit /\ HystIdle /\ SobelIdle /\ AppIdle
SpecRW == InitRW /\ [][RwNext]_vars

\* one call of hysteresis on its own
InitHyst == CannyIdle /\ GLIdle /\ RwIdle /\ HystInit /\ SobelIdle /\ AppIdle
SpecHyst == InitHyst /\ [][HystNext]_vars

\* one call of applySobelEdgeDetection
InitSobel == CannyIdle /\ GLIdle /\ RwIdle /\ HystIdle /\ SobelInit /\ AppIdle
SpecSobel == InitSobel /\ [][SobelNext]_vars

\* the mounted components.  The browser runs a pending img.onload, a resolved
\* import callback and, while the webcam is on, the 100 ms frame timer; nothing
\* makes the user act.
InitApp == CannyIdle /\ GLIdle /\ RwIdle /\ HystIdle /\ SobelIdle /\ AppInit
SpecApp ==
  /\ InitApp
  /\ [][AppNext]_vars
  /\ WF_vars(ImageLoaded)
  /\ WF_vars(WebGLRendered)
  /\ WF_vars(WebcamFrame)

----------------------------------------------------------------------------
(* Properties of applyCannyEdgeDetection (checked under SpecCanny) *)

Pixels == 0..(canvas.width * canvas.height - 1)

\* hysteresis has returned
HysteresisDone == pc \in {"output", "done"}

\* the edge value of output pixel p (its R sample)
EdgeValue(out, p) == out.data[4 * p]

\* all pixels of the source are the same RGBA sample
Uniform(img) ==
  \A p \in 0..(img.width * img.height - 1) : \A c \in 0..3 :
     img.data[4 * p + c] = img.data[c]

StrongCount(out) ==
  Cardinality({p \in 0..(out.width * out.height - 1) : EdgeValue(out, p) = 255})

\* what applyCannyEdgeDetection returns for the suppressed magnitudes of this
\* call under other thresholds
OutputFor(low, high) ==
  EdgesToRGBA(hysteresis(suppressed, canvas.width, canvas.height, low, high),
              canvas.width, canvas.height)

\* C1: the edge map returned by hysteresis holds only the labels 0 and 255;
\* no pixel, interior or border, keeps the weak label 128.
C1_OnlyFinalLabels ==
  HysteresisDone => \A i \in Pixels : edges[i] \in {0, 255}

\* C2 as stated: a uniform image gives an all-zero output for all thresholds
\* lowThreshold <= highThreshold in 0..255.
C2_UniformAllZero ==
  (pc = "done" /\ Uniform(canvas) /\ lowThreshold <= highThreshold)
    => \A p \in Pixels : EdgeValue(outputCanvas, p) = 0

\* C2 amended: a uniform image gives an all-zero output when
\* 1 <= lowThreshold <= highThreshold; with lowThreshold = 0 < highThreshold the
\* interior pixels are 0 and the border pixels 128; with highThreshold = 0
\* every pixel is 255.
C2_UniformByThreshold ==
  (pc = "done" /\ Uniform(canvas) /\ lowThreshold <= highThreshold)
    => \A p \in Pixels :
         EdgeValue(outputCanvas, p) =
           IF lowThreshold >= 1 THEN 0
           ELSE IF highThreshold = 0 THEN 255
           ELSE IF Interior(p, canvas.width, canvas.height) THEN 0 ELSE 128

C2_Witness ==
  /\ pc = "done"
  /\ Uniform(canvas)
  /\ canvas.width = 4 /\ canvas.height = 3
  /\ canvas.data[0] = 200
  /\ lowThreshold = 100 /\ highThreshold = 255
  /\ \A p \in Pixels : EdgeValue(outputCanvas, p) = 0

\* C3 as stated: a call with lowThreshold > highThreshold does not return an
\* edge map unless the thresholds have been put in order (it clamps them or
\* throws before any stage).
C3_OrderedOrRejected ==
  pc = "done" => lowThreshold <= highThreshold

\* C3 amended: a call with lowThreshold > highThreshold runs every stage with
\* the thresholds as given and returns the edge map of the thresholds
\* (highThreshold, highThreshold), that is, of lowThreshold clamped down to
\* highThreshold.
C3_InvertedActsClamped ==
  (pc = "done" /\ lowThreshold > highThreshold)
    => /\ edges = hysteresis(suppressed, canvas.width, canvas.height,
                             highThreshold, highThreshold)
       /\ outputCanvas = OutputFor(highThreshold, highThreshold)
       /\ \A p \in Pixels :
            EdgeValue(outputCanvas, p) =
              IF MagGE(suppressed[p], highThreshold) THEN 255 ELSE 0

\* inverted thresholds with a magnitude between them, one above both and
\* one below both
C3_Witness ==
  /\ pc = "done"
  /\ lowThreshold = 255 /\ highThreshold = 100
  /\ \E p \in Pixels : MagGE(suppressed[p], 100) /\ ~MagGE(suppressed[p], 255)
  /\ \E p \in Pixels : MagGE(suppressed[p], 255)
  /\ \E p \in Pixels : ~MagGE(suppressed[p], 100)

\* thresholds the output of a call is compared with
CompareThresholds == {0, 1, 50, 100, 150, 200, 255}

\* C4: raising the thresholds (l1 <= l2, h1 <= h2, both pairs ordered) never
\* raises the number of output pixels labelled strong (255).
C4_ThresholdMonotone ==
  (pc = "done" /\ lowThreshold <= highThreshold)
    => \A l2 \in CompareThresholds : \A h2 \in CompareThresholds :
         (lowThreshold <= l2 /\ highThreshold <= h2 /\ l2 <= h2)
           => StrongCount(OutputFor(l2, h2)) <= StrongCount(outputCanvas)

\* a call in which a weak pixel was promoted and higher thresholds leave
\* fewer, but some, strong pixels
C4_Witness ==
  /\ pc = "done"
  /\ lowThreshold <= highThreshold
  /\ \E p \in Pixels : /\ Interior(p, canvas.width, canvas.height)
                       /\ ~MagGE(suppressed[p], highThreshold)
                       /\ edges[p] = 255
  /\ \E l2 \in CompareThresholds : \E h2 \in CompareThresholds :
       /\ lowThreshold <= l2 /\ highThreshold <= h2 /\ l2 <= h2
       /\ StrongCount(OutputFor(l2, h2)) > 0
       /\ StrongCount(OutputFor(l2, h2)) < StrongCount(outputCanvas)

\* C5: every pixel of the output has R = G = B and alpha = 255.
C5_GrayscaleOpaque ==
  pc = "done"
    => \A p \in Pixels :
         /\ outputCanvas.data[4 * p] = outputCanvas.data[4 * p + 1]
         /\ outputCanvas.data[4 * p + 1] = outputCanvas.data[4 * p + 2]
         /\ outputCanvas.data[4 * p + 3] = 255

\* an output with edge and non-edge pixels, from a source that is neither
\* grey nor opaque
C5_Witness ==
  /\ pc = "done"
  /\ \E p \in Pixels : canvas.data[4 * p + 3] = 128 /\ canvas.data[4 * p] = 200
  /\ \E p \in Pixels : EdgeValue(outputCanvas, p) = 255
  /\ \E p \in Pixels : EdgeValue(outputCanvas, p) = 0

\* C6: the output has the width and the height of the input, also when the
\* input has no interior pixel (width or height below 3).
C6_SameDimensions ==
  pc = "done"
    => /\ outputCanvas.width = canvas.width
       /\ outputCanvas.height = canvas.height
       /\ DOMAIN outputCanvas.data = 0..(4 * canvas.width * canvas.height - 1)

C6_Witness ==
  /\ pc = "done"
  /\ canvas.width = 2 /\ canvas.height = 3
  /\ outputCanvas.width = 2 /\ outputCanvas.height = 3

----------------------------------------------------------------------------
(* Properties of WebGLRenderer (checked under SpecGL) *)

\* the context calls the last operation made under the name `name`
CallsNamed(name) == {i \in 1..Len(glCalls) : glCalls[i].call = name}

\* C7: after dispose(), every later loadTexture, render or resize on the
\* instance fails with an error.
C7_FailsAfterDispose ==
  (disposed /\ lastOp.op \in {"loadTexture", "render", "resize"})
    => lastOp.result = "throw"

\* C8: no program or texture that has been deleted is passed to useProgram,
\* bindTexture, getAttribLocation or getUniformLocation, or drawn with.
C8_NoDeletedHandleUsed ==
  \A i \in 1..Len(glCalls) :
     /\ glCalls[i].call \in {"useProgram", "bindTexture", "getAttribLocation",
                             "getUniformLocation"}
          => glCalls[i].handle \notin glDeleted
     /\ glCalls[i].call = "drawArrays"
          => /\ glCalls[i].handle[1] \notin glDeleted
             /\ glCalls[i].handle[2] \notin glDeleted

\* a render of an effect after dispose() has deleted a program and a texture
C8_Witness ==
  /\ disposed
  /\ lastOp.op = "render" /\ lastOp.arg = "edge"
  /\ \E n \in 1..nextHandle : Program(n) \in glDeleted
  /\ \E n \in 1..nextHandle : Texture(n) \in glDeleted

\* C9: right after dispose(), every program and texture the renderer created
\* has been deleted.
C9_DisposeReleasesAll ==
  lastOp.op = "dispose" => glLive = {}

\* C10: a render of an effect other than original while no texture is stored
\* under "main" issues no draw call and raises no error.
C10_NoDrawWithoutMain ==
  (lastOp.op = "render" /\ lastOp.arg # "original" /\ ~MapHas(textures, "main"))
    => /\ CallsNamed("drawArrays") = {}
       /\ lastOp.result = "ok"

----------------------------------------------------------------------------
(* Claims about render and the constructor of WebGLRenderer *)

\* the last operation was render(effect) on the live instance
Rendered(effect) == lastOp.op = "render" /\ lastOp.arg = effect

ConstructorRan == lastOp.op = "constructor" /\ glBuild.context = "ok"
FragmentBuilds(e) == glBuild.fragment[e] = "ok" /\ glBuild.link[e] = "ok"

C13_MissingProgramOnlyLogs ==
  [][(/\ lastOp'.op = "render"
      /\ lastOp'.arg # "original"
      /\ ~MapHas(programs, lastOp'.arg))
     => (/\ glCalls' = <<>>
         /\ Len(consoleErrors') = 1
         /\ lastOp'.result = "ok"
         /\ UNCHANGED <<inst, programs, textures, currentProgram, glLive, glDeleted,
                         nextHandle, boundTexture, canvasSize, disposed>>)]_vars

\* an effect left out by the constructor is rendered while another program is in use
C13_Witness ==
  /\ lastOp.op = "render"
  /\ lastOp.arg # "original"
  /\ ~MapHas(programs, lastOp.arg)
  /\ ~disposed
  /\ currentProgram # Null
  /\ MapHas(textures, "main")

\* C17: when canvas.getContext gives no context the constructor throws at once,
\* and no instance, no program and no texture has been created.
C17_NoContextThrows ==
  glBuild.context = "null" =>
    /\ inst = "failed"
    /\ lastOp = [op |-> "constructor", arg |-> "", result |-> "throw"]
    /\ programs = <<>>
    /\ textures = <<>>
    /\ glLive = {}
    /\ glDeleted = {}
    /\ nextHandle = 1
    /\ glCalls = <<>>

\* the constructor ran without a context
C17_Witness == lastOp.op = "constructor" /\ glBuild.context = "null"

----------------------------------------------------------------------------
(* Claims about the thresholds at 255, the border and nonMaxSuppression *)

BothThresholds255 == lowThreshold = 255 /\ highThreshold = 255

\* C14 as stated: with lowThreshold = 255 and highThreshold = 255 every pixel of
\* the output is 0, whatever the image.
C14_AllZeroAt255 ==
  (pc = "done" /\ BothThresholds255) =>
    \A p \in Pixels : EdgeValue(outputCanvas, p) = 0

\* C14, as the code has it: with both thresholds at 255 an output pixel is 255
\* exactly where the suppressed Sobel magnitude is at least 255 (the magnitude of
\* an 8-bit image reaches 1020 * sqrt 2), and 0 everywhere else.
C14_StrongWhereMagnitudeReaches255 ==
  (pc = "done" /\ BothThresholds255) =>
    \A p \in Pixels :
       EdgeValue(outputCanvas, p) = IF suppressed[p] >= 255 * 255 THEN 255 ELSE 0

\* both thresholds are 255 and the output has edge pixels and non-edge pixels
C14_Witness ==
  /\ pc = "done"
  /\ BothThresholds255
  /\ \E p \in Pixels : EdgeValue(outputCanvas, p) = 255
  /\ \E p \in Pixels : Interior(p, canvas.width, canvas.height)
                         /\ EdgeValue(outputCanvas, p) = 0

BorderPixels == {p \in Pixels : ~Interior(p, canvas.width, canvas.height)}
InteriorPixels == {p \in Pixels : Interior(p, canvas.width, canvas.height)}

\* C18 as stated: for every image and every threshold pair, no border pixel of the
\* final edge map carries an edge label, neither 128 nor 255.
C18_BorderNeverEdge ==
  HysteresisDone => \A p \in BorderPixels : edges[p] \notin {128, 255}

\* C18, as the code has it: the border pixels have magnitude 0, so they are 0 when
\* both thresholds are at least 1; with highThreshold = 0 they are 255 (0 >= 0 is
\* strong), and with lowThreshold = 0 < highThreshold they keep the weak label 128,
\* which the edge tracking pass never visits outside the interior.
C18_BorderByThreshold ==
  HysteresisDone =>
    \A p \in BorderPixels :
       edges[p] = IF highThreshold = 0 THEN 255
                  ELSE IF lowThreshold = 0 THEN 128
                  ELSE 0

\* thresholds of at least 1, an edge found in the interior, the border clean
C18_Witness ==
  /\ HysteresisDone
  /\ lowThreshold >= 1
  /\ highThreshold >= 1
  /\ \E p \in InteriorPixels : edges[p] = 255
  /\ \A p \in BorderPixels : edges[p] = 0

\* the four neighbour pairs of nonMaxSuppression, as index offsets, each with the
\* sectors (multiples of 45 degrees) of the directions its branch is written for
NeighbourPairs(width) ==
  { [pair |-> <<-1, 1>>,                  sectors |-> {0, 4, -4}],
    [pair |-> <<-width + 1, width - 1>>,  sectors |-> {1, -3}],
    [pair |-> <<-width, width>>,          sectors |-> {2, -2}],
    [pair |-> <<-width - 1, width + 1>>,  sectors |-> {3, -1}] }

\* the pairs whose angular range holds direction d
PairsSelected(d, width) ==
  {n \in NeighbourPairs(width) : AngleSector(d) \in n.sectors}

\* C20: in nonMaxSuppression the direction of every interior pixel selects exactly
\* one of the four neighbour pairs, and the pixel keeps its magnitude when it is
\* greater than or equal to both neighbours of that pair, and is set to 0 otherwise.
C20_OnePairAndLocalMaximum ==
  pc = "hysteresis" =>
    \A p \in InteriorPixels :
       /\ Cardinality(PairsSelected(direction[p], canvas.width)) = 1
       /\ \A n \in PairsSelected(direction[p], canvas.width) :
            /\ NmsNeighbours(direction[p], canvas.width) = n.pair
            /\ suppressed[p] =
                 IF /\ magnitude[p] >= magnitude[p + n.pair[1]]
                    /\ magnitude[p] >= magnitude[p + n.pair[2]]
                 THEN magnitude[p]
                 ELSE 0

\* one interior pixel is suppressed by a greater neighbour along its direction,
\* another is kept, and the else branch (the 135 degree diagonal) is taken
C20_Witness ==
  /\ pc = "hysteresis"
  /\ \E p \in InteriorPixels : magnitude[p] > 0 /\ suppressed[p] = 0
  /\ \E p \in InteriorPixels : magnitude[p] > 0 /\ suppressed[p] = magnitude[p]
  /\ \E p \in InteriorPixels : AngleSector(direction[p]) \in {3, -1}

----------------------------------------------------------------------------
(* Claims about the edge tracking pass of hysteresis *)

\* the 8 neighbours of pixel idx
Neighbours8(idx, width) ==
  {idx + ky * width + kx : ky \in -1..1, kx \in -1..1} \ {idx}

\* the labels the double threshold gave, before any pixel was visited
LabelsBeforeTracking ==
  DoubleThreshold(hyst.magnitude, hyst.lowThreshold, hyst.highThreshold)

\* C19: the edge tracking pass visits the interior pixels once each in raster
\* order; a pixel that is weak when visited becomes strong exactly when one of its
\* 8 neighbours carries the strong label at that moment, and 0 otherwise, and no
\* other pixel changes, so that value is the one the pixel ends with.
C19_WeakResolvedAtVisit ==
  [][hyst.pc = "track" =>
       LET idx == hyst.y * hyst.width + hyst.x
           idxNext == hyst'.y * hyst.width + hyst'.x
       IN  /\ Interior(idx, hyst.width, hyst.height)
           /\ hyst.edges[idx] = weak =>
                hyst'.edges[idx] =
                  IF \E n \in Neighbours8(idx, hyst.width) : hyst.edges[n] = strong
                  THEN strong ELSE 0
           /\ \A p \in (DOMAIN hyst.edges) \ {idx} :
                /\ hyst'.edges[p] = hyst.edges[p]
                /\ (p > idx /\ Interior(p, hyst.width, hyst.height)) =>
                     hyst.edges[p] = LabelsBeforeTracking[p]
           /\ hyst.edges[idx] # weak => hyst'.edges[idx] = hyst.edges[idx]
           /\ idxNext > idx]_vars

\* the pass has ended; one weak pixel was promoted by a neighbour that was strong
\* when it was visited, another was set to 0 although a neighbour visited after it
\* ended strong
C19_Witness ==
  /\ hyst.pc = "return"
  /\ \E p \in DOMAIN hyst.edges :
       /\ Interior(p, hyst.width, hyst.height)
       /\ LabelsBeforeTracking[p] = weak
       /\ hyst.edges[p] = strong
  /\ \E p \in DOMAIN hyst.edges :
       /\ Interior(p, hyst.width, hyst.height)
       /\ LabelsBeforeTracking[p] = weak
       /\ hyst.edges[p] = 0
       /\ \E n \in Neighbours8(p, hyst.width) : hyst.edges[n] = strong

\* the statement-by-statement call returns what the operator hysteresis, which
\* the pipeline uses, computes
HystStepsAgree ==
  hyst.pc = "return" =>
    hyst.edges = hysteresis(hyst.magnitude, hyst.width, hyst.height,
                            hyst.lowThreshold, hyst.highThreshold)

----------------------------------------------------------------------------
(* Claims about applySobelEdgeDetection *)

SobelPixels == 0..(sobel.canvas.width * sobel.canvas.height - 1)

\* the R, G and B samples of the output
SobelColourSamples ==
  {sobel.outputCanvas.data[4 * p + c] : p \in SobelPixels, c \in 0..2}

\* C15: for every image whose Sobel magnitude is not zero at some pixel, the
\* largest colour sample of the output of applySobelEdgeDetection is exactly
\* 255, and it stands at a pixel of the greatest magnitude.
C15_SobelMaximumIs255 ==
  (sobel.pc = "done" /\ \E p \in SobelPixels : sobel.magnitude[p] # 0) =>
    /\ 255 \in SobelColourSamples
    /\ \A v \in SobelColourSamples : v <= 255
    /\ \A p \in SobelPixels :
         sobel.magnitude[p] = sobel.maxMag => sobel.outputCanvas.data[4 * p] = 255

\* an image of low contrast (largest magnitude below 255) whose output has the
\* value 255 and a value strictly between 0 and 255
C15_Witness ==
  /\ sobel.pc = "done"
  /\ sobel.maxMag > 0
  /\ sobel.maxMag < 255 * 255
  /\ 255 \in SobelColourSamples
  /\ \E v \in SobelColourSamples : 0 < v /\ v < 255

----------------------------------------------------------------------------
(* Claims about live processing of webcam frames *)

\* live processing is on, the webcam is on, and frame f is the current image
LiveFrame(f) == app.isLiveMode /\ uploader.isWebcamActive /\ app.imageData = f

\* C16: while Live Processing is on and the webcam is active, every webcam frame
\* that becomes the current image is eventually followed by a processed image
\* made from it, with no need for the Process Image button (the obligation ends
\* when live processing or the webcam is switched off).
C16_LiveFrameEventuallyProcessed ==
  \A f \in FrameUrls :
    LiveFrame(f) ~> \/ app.processedImage.src = f
                    \/ ~app.isLiveMode
                    \/ ~uploader.isWebcamActive

-----------------------------------------------------------------------------
(* Claims about the geometry of nonMaxSuppression *)

\* the two neighbours of a pixel that lie along its quantized gradient direction,
\* as offsets <<dx, dy>> with x to the right and y downwards: direction d is
\* <<gy, gx>>, where gx grows to the right and gy grows downwards
AlongGradient(d) ==
  LET gy == d[1]
      gx == d[2]
      a  == AngleSector(d)
  IN  IF a \in {0, 4, -4} THEN {<<-1, 0>>, <<1, 0>>}
      ELSE IF a \in {2, -2} THEN {<<0, -1>>, <<0, 1>>}
      ELSE IF (gx > 0) = (gy > 0) THEN {<<1, 1>>, <<-1, -1>>}
      ELSE {<<1, -1>>, <<-1, 1>>}

\* the index offset of the neighbour at <<dx, dy>>
IndexOffset(o, width) == o[2] * width + o[1]

\* the index offsets of the two neighbours nonMaxSuppression compares
ComparedOffsets(d, width) ==
  {NmsNeighbours(d, width)[1], NmsNeighbours(d, width)[2]}

\* C21: the two neighbours nonMaxSuppression compares with an interior pixel lie
\* along the quantized gradient direction: left and right in the 0 degree bin, up
\* and down in the 90 degree bin, (+1,+1) and (-1,-1) in a diagonal bin when gx and
\* gy have the same sign, (+1,-1) and (-1,+1) when they have opposite signs.
C21_NeighboursAlongGradient ==
  pc = "hysteresis" =>
    \A p \in InteriorPixels :
      ComparedOffsets(direction[p], canvas.width)
        = {IndexOffset(o, canvas.width) : o \in AlongGradient(direction[p])}

\* the same for the horizontal and vertical bins alone
C21_AxisBinsAlongGradient ==
  pc = "hysteresis" =>
    \A p \in InteriorPixels :
      AngleSector(direction[p]) \in {0, 4, -4, 2, -2} =>
        ComparedOffsets(direction[p], canvas.width)
          = {IndexOffset(o, canvas.width) : o \in AlongGradient(direction[p])}

-----------------------------------------------------------------------------
(* Claims about the draw of render and the texture it binds *)

\* the last operation was render of an effect other than original whose program
\* exists (render leaves programs as it was)
RenderedWithProgram ==
  lastOp.op = "render" /\ lastOp.arg # "original" /\ MapHas(programs, lastOp.arg)

\* C22: render of an effect other than original whose program exists clears the
\* target and then issues exactly one draw call, a TRIANGLE_STRIP of 4 vertices:
\* the clear comes before the draw and there is no other draw.
C22_ClearThenOneDraw ==
  RenderedWithProgram =>
    /\ Cardinality(CallsNamed("drawArrays")) = 1
    /\ CallsNamed("clear") # {}
    /\ \A c \in CallsNamed("clear"), d \in CallsNamed("drawArrays") :
         /\ c < d
         /\ glCalls[d].mode = "TRIANGLE_STRIP"
         /\ glCalls[d].count = 4

\* a render of the edge effect, whose program exists, with a texture under "main"
C22_Witness ==
  /\ RenderedWithProgram
  /\ CallsNamed("drawArrays") # {}
  /\ lastOp.arg = "edge"
  /\ MapHas(textures, "main")

\* the textures the last operation handed to bindTexture
TexturesBound == {glCalls[i].handle : i \in CallsNamed("bindTexture")}

\* C23: after any sequence of loadTexture calls, the texture a render binds is the
\* one the most recent loadTexture under "main" created; a texture stored under
\* that name earlier is never bound again.
C23_RenderBindsLatestMain ==
  (RenderedWithProgram /\ latestMain # Null) =>
    /\ TexturesBound = {latestMain}
    /\ boundTexture = latestMain

\* a render after "main" was loaded at least twice, with the first texture of
\* "main" still alive
C23_Witness ==
  /\ RenderedWithProgram
  /\ TexturesBound # {}
  /\ latestMain # Null
  /\ \E t \in glLive : t[1] = "texture" /\ t # latestMain /\ t \notin MapValues(textures)

-----------------------------------------------------------------------------
(* Claims about the buffers of applyCannyEdgeDetection *)

\* no step changes buffer b once it has been produced
Kept(b, bNext) == b # None => bNext = b

\* C24: no stage of applyCannyEdgeDetection writes to its input: the source canvas,
\* the pixel data read from it and every intermediate array (blurred, gray,
\* magnitude, direction, suppressed) keep, in every later step of the call, the
\* values they had when they were produced.
C24_InputsNeverWritten ==
  [][/\ Kept(canvas, canvas')
     /\ Kept(imageData, imageData')
     /\ Kept(blurred, blurred')
     /\ Kept(gray, gray')
     /\ Kept(magnitude, magnitude')
     /\ Kept(direction, direction')
     /\ Kept(suppressed, suppressed')]_vars

\* a call that returned with labelled edges; suppression and hysteresis each
\* produced values that differ from their input
C24_Witness ==
  /\ pc = "done"
  /\ imageData = canvas
  /\ suppressed # magnitude
  /\ \E p \in Pixels : suppressed[p] > 0 /\ edges[p] # suppressed[p]

\* C25: the result of hysteresis does not depend on the raster visiting order: an
\* interior weak pixel is promoted to strong only if one of its 8 neighbours had a
\* magnitude >= highThreshold, never because a weak neighbour was promoted earlier
\* in the same pass.
C25_PromotedOnlyByThresholdStrong ==
  hyst.pc = "return" =>
    \A p \in DOMAIN hyst.edges :
      (/\ Interior(p, hyst.width, hyst.height)
       /\ LabelsBeforeTracking[p] = weak
       /\ hyst.edges[p] = strong)
      => \E n \in Neighbours8(p, hyst.width) : LabelsBeforeTracking[n] = strong

-----------------------------------------------------------------------------
(* Claims about renderWithWebGL *)

\* C29: every WebGLRenderer that renderWithWebGL creates has been disposed by the
\* time the call returns: dispose() has run on it and none of the programs and
\* textures it created is left alive.
C29_RendererDisposedOnReturn ==
  (rw.pc \in {"returned", "thrown"} /\ inst = "live") =>
    /\ disposed
    /\ glLive = {}

-----------------------------------------------------------------------------
(* Claims about the state of App across processing runs *)

\* C26: every processing start (onProcessingStart, isProcessing true) is followed
\* by onProcessComplete (isProcessing false) on every path of processImage: while
\* isProcessing is true a processImage call is in flight that will make the call.
C26_StartedRunCompletes ==
  app.isProcessing => runs # {}

\* the same as a liveness property: isProcessing does not stay true for ever
C26_StartLeadsToComplete ==
  app.isProcessing ~> ~app.isProcessing

\* C27: whenever processedImage is not null it is the result of processing the
\* image that is in imageData: a run that completes after a newer image or frame
\* was set does not store its result.
C27_ProcessedIsOfCurrentImage ==
  app.processedImage # NoProcessed => app.processedImage.src = app.imageData

\* C28: viewMode is "processed" or "split" only while processedImage is not null,
\* whatever the interleaving of view mode clicks, uploads and completions.
C28_ProcessedViewHasImage ==
  viewer.viewMode \in {"processed", "split"} => app.processedImage # NoProcessed

\* C30: a webcam frame delivered to handleWebcamFrame while live mode is off leaves
\* the state of App (imageData, processedImage, stats, isProcessing, isLiveMode)
\* as it was.
C30_FrameIgnoredWhenNotLive ==
  [][(WebcamFrame /\ ~app.isLiveMode) => app' = app]_vars

\* the timer has delivered a frame and live mode is off; the frame is not the
\* current image, of which a WebGL run has stored the result
C30_Witness ==
  /\ uploader.lastFrame \in FrameUrls
  /\ ~app.isLiveMode
  /\ app.imageData \in UploadUrls
  /\ app.processedImage # NoProcessed
  /\ app.stats.renderMode = "WebGL (GPU)"

====
